---------------------------- MODULE Spec2Model ----------------------------
(***************************************************************************)
(* Model of src/maas_dhcp_manager.py: the MAASLeaseManager class (its      *)
(* credentials, header construction, the HTTP call wrapper, the four       *)
(* single operations and the two CSV batch operations) and the remote API  *)
(* it talks to.                                                            *)
(*                                                                         *)
(* Python strings are sequences of tokens, so that split(':'), strip(),    *)
(* rstrip('/') and lower() are computed rather than assumed.  Python's     *)
(* None is the value None below (NoneId where an integer is expected).     *)
(* A dict is a function from its keys; {} and [] are both << >>.           *)
(***************************************************************************)
EXTENDS Integers, Sequences, FiniteSets, TLC

(* ------------------------------ bounds -------------------------------- *)

\* Largest number of records in the remote collection.
MaxItems == 2

\* Largest number of lines after the header in a CSV file.
MaxRows == 2

(* --------------------------- Python values ---------------------------- *)

None == <<"None">>

NoneId == -1

EmptyDict == << >>

\* Python truthiness of a string-or-None value: `if s`.
Truthy(s) == s # None /\ s # << >>

\* Python `a or b` on string-or-None values.
Or(a, b) == IF Truthy(a) THEN a ELSE b

\* dict.get(key, default)
Get(d, k, default) == IF k \in DOMAIN d THEN d[k] ELSE default

RECURSIVE SplitAcc(_, _, _)
SplitAcc(s, sep, cur) ==
    IF s = << >> THEN <<cur>>
    ELSE IF Head(s) = sep THEN <<cur>> \o SplitAcc(Tail(s), sep, << >>)
         ELSE SplitAcc(Tail(s), sep, Append(cur, Head(s)))

\* str.split(sep): the segments between the separators, always at least one.
Split(s, sep) == SplitAcc(s, sep, << >>)

RECURSIVE LStrip(_, _)
LStrip(s, c) == IF s # << >> /\ Head(s) = c THEN LStrip(Tail(s), c) ELSE s

RECURSIVE RStrip(_, _)
RStrip(s, c) ==
    IF s # << >> /\ s[Len(s)] = c THEN RStrip(SubSeq(s, 1, Len(s) - 1), c) ELSE s

\* str.strip(): leading and trailing blanks removed.
Strip(s) == RStrip(LStrip(s, " "), " ")

LowerTok(t) ==
    CASE t = "AA:BB" -> "aa:bb"
      [] t = "CC:DD" -> "cc:dd"
      [] OTHER -> t

\* str.lower()
Lower(s) == [i \in DOMAIN s |-> LowerTok(s[i])]

(* ---------------------------- credentials ----------------------------- *)

MAAS_URL == <<"http://maas.example.com:5240">>

MAAS_API_KEY == <<"YOUR_API_KEY_HERE">>

\* __init__ with its operands swapped: the constants win over the flags.
ManagerInitConstantsFirst(maas_url, api_key) ==
    [maas_url |-> Or(MAAS_URL, maas_url),
     api_key  |-> Or(MAAS_API_KEY, api_key),
     unconfigured |-> TRUE]

\* MAASLeaseManager.__init__: the flag when it is given and non-empty, the
\* module constant otherwise.  Nothing else is read.
ManagerInit(maas_url, api_key) ==
    LET url == Or(maas_url, MAAS_URL)
        key == Or(api_key, MAAS_API_KEY)
    IN  [maas_url |-> url,
         api_key  |-> key,
         unconfigured |-> (~Truthy(url) \/ ~Truthy(key) \/ url = MAAS_URL)]

\* MAASLeaseManager._get_headers: {} for a key that does not split into three
\* parts.  oauth_timestamp and oauth_nonce (clock and random) are left out.
GetHeaders(self_) ==
    LET parts == Split(self_.api_key, ":")
    IN  IF Len(parts) # 3 THEN EmptyDict
        ELSE [Authorization |->
                 [oauth_consumer_key     |-> parts[1],
                  oauth_token            |-> parts[2],
                  oauth_signature_method |-> "PLAINTEXT",
                  oauth_signature        |-> <<"&">> \o parts[3],
                  oauth_version          |-> "1.0"],
              Accept |-> "application/json"]

\* The messages _get_headers prints.
GetHeadersOut(self_) ==
    IF Len(Split(self_.api_key, ":")) # 3 THEN {"ERROR: API key must be in format"} ELSE {}

(* ------------------------------ the API ------------------------------- *)

Snippets == "/MAAS/api/2.0/dhcp-snippets/"

\* An endpoint: the collection, or one resource of it.
Endpoint(target) == [path |-> Snippets, target |-> target]

Methods == {"GET", "POST", "PUT", "DELETE"}

SuccessCodes == {200, 201, 202, 204}

\* What the transport gives back: an exception, or a status with a body.
Exc == [exc |-> TRUE, status_code |-> 0, content |-> FALSE, json |-> EmptyDict]

Http(status, content, json) ==
    [exc |-> FALSE, status_code |-> status, content |-> content, json |-> json]

PyNone == [isNone |-> TRUE, value |-> EmptyDict]

PyVal(v) == [isNone |-> FALSE, value |-> v]

\* Python truthiness of a call result: `if result`.
ResultTruthy(r) == ~r.isNone /\ r.value # << >>

\* MAASLeaseManager._maas_api_call: the result, the requests issued (none or
\* one) and the messages printed, for the response `resp` of the transport.
MaasApiCall(self_, endpoint, method, data, resp) ==
    IF ~Truthy(self_.maas_url) \/ ~Truthy(self_.api_key)
    THEN [result |-> PyNone, sent |-> << >>,
          out |-> {"ERROR: MAAS API credentials not provided"}]
    ELSE LET url     == [base |-> RStrip(self_.maas_url, "/"), endpoint |-> endpoint]
             headers == GetHeaders(self_)
             req     == [method |-> method, url |-> url, headers |-> headers,
                         data |-> data]
             hout    == GetHeadersOut(self_)
         IN  IF method \notin Methods
             THEN [result |-> PyNone, sent |-> << >>,
                   out |-> hout \cup {"ERROR: Unsupported HTTP method"}]
             ELSE IF resp.exc
             THEN [result |-> PyNone, sent |-> <<req>>,
                   out |-> hout \cup {"Request failed"}]
             ELSE IF resp.status_code \in SuccessCodes
             THEN [result |-> IF resp.content THEN PyVal(resp.json) ELSE PyVal(EmptyDict),
                   sent |-> <<req>>, out |-> hout \cup {"Success"}]
             ELSE [result |-> PyNone, sent |-> <<req>>, out |-> hout \cup {"Error"}]

(* -------------------------- single operations ------------------------- *)

NoTarget == << >>

NoData == << >>

NA == <<"N/A">>

ProjectedAway == {"ip", "mac", "hostname", "lease_time_seconds"}

\* list_leases, the loop body: one record of the response as a lease.  The
\* fixed fields first, then every other key of the record copied over them.
ProjectLease(item) ==
    LET lease == [lease_name  |-> Get(item, "lease_name", Get(item, "hostname", NA)),
                  ip_address  |-> Get(item, "ip", NA),
                  mac_address |-> Get(item, "mac", NA),
                  hostname    |-> Get(item, "hostname", NA),
                  lease_time  |-> Get(item, "lease_time_seconds", NA)]
        others == DOMAIN item \ ProjectedAway
    IN  [k \in DOMAIN lease \cup others |-> IF k \in others THEN item[k] ELSE lease[k]]

\* list_leases returning, for the raw format, what it printed.
ListLeasesRawResult(self_, output_format, resp) ==
    LET call == MaasApiCall(self_, Endpoint(NoTarget), "GET", NoData, resp)
        result == call.result.value
        leases == [i \in DOMAIN result |-> ProjectLease(result[i])]
    IN  IF call.result.isNone
        THEN [ret |-> << >>, sent |-> call.sent, out |-> call.out, printed |-> << >>]
        ELSE [ret |-> IF output_format = "raw" THEN result ELSE leases,
              sent |-> call.sent, out |-> call.out,
              printed |-> IF output_format = "raw" THEN result ELSE leases]

\* MAASLeaseManager.list_leases
ListLeases(self_, output_format, resp) ==
    LET call == MaasApiCall(self_, Endpoint(NoTarget), "GET", NoData, resp)
        result == call.result.value
        leases == [i \in DOMAIN result |-> ProjectLease(result[i])]
    IN  IF call.result.isNone
        THEN [ret |-> << >>, sent |-> call.sent, out |-> call.out, printed |-> << >>]
        ELSE [ret |-> leases, sent |-> call.sent,
              out |-> call.out \cup
                      (IF output_format \notin {"json", "raw"} /\ leases = << >>
                       THEN {"No leases found."} ELSE {}),
              printed |-> IF output_format = "raw" THEN result ELSE leases]

\* delete_lease, the test of the scan: exact for ip, case-insensitive for mac.
Matches(item, identifier, identifier_type) ==
    \/ identifier_type = "ip" /\ Get(item, "ip", None) = identifier
    \/ identifier_type = "mac" /\ Lower(Get(item, "mac", << >>)) = Lower(identifier)

\* The scan without its test: the id of the first record, whatever it is.
FindLeaseIdUntested(result, identifier, identifier_type) ==
    IF result = << >> THEN NoneId ELSE Get(result[1], "id", NoneId)

\* delete_lease, the scan: the id of the first matching record, None when the
\* record has no id or no record matches.
FindLeaseId(result, identifier, identifier_type) ==
    LET hits == {i \in DOMAIN result : Matches(result[i], identifier, identifier_type)}
    IN  IF hits = {} THEN NoneId
        ELSE Get(result[CHOOSE i \in hits : \A j \in hits : i <= j], "id", NoneId)

\* Python truthiness of an id-or-None value: `if lease_id`.
IdTruthy(lease_id) == lease_id # NoneId /\ lease_id # 0

\* delete_lease asking for the listing once more when the first GET fails.
DeleteLeaseRetryListing(self_, identifier, identifier_type, resp1, resp2) ==
    LET first == MaasApiCall(self_, Endpoint(NoTarget), "GET", NoData, resp1)
        again == MaasApiCall(self_, Endpoint(NoTarget), "GET", NoData, resp2)
        lease_id == FindLeaseId(first.result.value, identifier, identifier_type)
        second == MaasApiCall(self_, Endpoint(<<lease_id>>), "DELETE", NoData, resp2)
    IN  IF first.result.isNone
        THEN [ret |-> FALSE, sent |-> first.sent \o again.sent,
              out |-> first.out \cup again.out]
        ELSE IF ~IdTruthy(lease_id)
        THEN [ret |-> FALSE, sent |-> first.sent,
              out |-> first.out \cup {"Lease not found"}]
        ELSE [ret |-> ~second.result.isNone, sent |-> first.sent \o second.sent,
              out |-> first.out \cup second.out]

\* delete_lease without its listing: the identifier taken for the handle.
DeleteLeaseNoListing(self_, identifier, identifier_type, resp1, resp2) ==
    LET call == MaasApiCall(self_, Endpoint(identifier), "DELETE", NoData, resp1)
    IN  [ret |-> ~call.result.isNone, sent |-> call.sent, out |-> call.out]

\* MAASLeaseManager.delete_lease: resp1 answers the listing, resp2 the DELETE.
DeleteLease(self_, identifier, identifier_type, resp1, resp2) ==
    LET first == MaasApiCall(self_, Endpoint(NoTarget), "GET", NoData, resp1)
        lease_id == FindLeaseId(first.result.value, identifier, identifier_type)
        second == MaasApiCall(self_, Endpoint(<<lease_id>>), "DELETE", NoData, resp2)
    IN  IF first.result.isNone
        THEN [ret |-> FALSE, sent |-> first.sent, out |-> first.out]
        ELSE IF ~IdTruthy(lease_id)
        THEN [ret |-> FALSE, sent |-> first.sent,
              out |-> first.out \cup {"Lease not found"}]
        ELSE IF ~second.result.isNone
        THEN [ret |-> TRUE, sent |-> first.sent \o second.sent,
              out |-> first.out \cup second.out \cup {"Successfully deleted lease"}]
        ELSE [ret |-> FALSE, sent |-> first.sent \o second.sent,
              out |-> first.out \cup second.out]

\* append_lease without its check of ip and mac.
AppendLeaseUnchecked(self_, ip, mac, hostname, resp) ==
    LET data == [ip |-> ip, mac |-> mac,
                 hostname |-> Or(hostname, << >>), lease_name |-> Or(hostname, << >>)]
        call == MaasApiCall(self_, Endpoint(NoTarget), "POST", data, resp)
    IN  [ret |-> ResultTruthy(call.result), sent |-> call.sent, out |-> call.out]

\* MAASLeaseManager.append_lease
AppendLease(self_, ip, mac, hostname, resp) ==
    LET data == [ip |-> ip, mac |-> mac,
                 hostname |-> Or(hostname, << >>), lease_name |-> Or(hostname, << >>)]
        call == MaasApiCall(self_, Endpoint(NoTarget), "POST", data, resp)
    IN  IF ~Truthy(ip) \/ ~Truthy(mac)
        THEN [ret |-> FALSE, sent |-> << >>, out |-> {"Error: Must provide both ip and mac"}]
        ELSE IF ResultTruthy(call.result)
        THEN [ret |-> TRUE, sent |-> call.sent,
              out |-> call.out \cup {"Successfully added lease"}]
        ELSE [ret |-> FALSE, sent |-> call.sent, out |-> call.out]

\* MAASLeaseManager.update_lease
UpdateLease(self_, snippet_name, ip, mac, hostname, resp) ==
    LET lease_string == <<"host ">> \o hostname \o <<" { hardware ethernet ">> \o mac
                        \o <<"; fixed-address ">> \o ip \o <<"; }">>
        data == [name |-> snippet_name, value |-> lease_string]
        call == MaasApiCall(self_, Endpoint(snippet_name), "PUT", data, resp)
    IN  IF ~call.result.isNone
        THEN [ret |-> TRUE, sent |-> call.sent,
              out |-> call.out \cup {"Successfully updated snippet"}]
        ELSE [ret |-> FALSE, sent |-> call.sent, out |-> call.out]

(* --------------------------- batch operations ------------------------ *)

Range(f) == {f[i] : i \in DOMAIN f}

\* csv.DictReader: a line as a dict over the header's columns; the columns a
\* short line does not reach hold None.
DictRow(fieldnames, row) ==
    [k \in Range(fieldnames) |->
        LET i == CHOOSE j \in DOMAIN fieldnames : fieldnames[j] = k
        IN  IF i <= Len(row) THEN row[i] ELSE None]

\* csv.DictReader skips a line with no cell at all.
BlankLine(row) == row = << >>

AppendRequired == {"ip", "mac"}

UpdateRequired == {"lease_name", "ip", "mac"}

RowFields == {"ip", "mac", "hostname", "lease_name"}

\* The opening of a batch without its check of the header.
OpenCsvUnchecked(f, required) ==
    IF ~f.exists THEN [started |-> FALSE, out |-> {"Error: CSV file not found"}]
    ELSE IF f.fieldnames = None
    THEN [started |-> FALSE, out |-> {"Error reading CSV file"}]
    ELSE [started |-> TRUE, out |-> {}]

\* update_from_csv / append_from_csv up to the loop: the file is looked for,
\* opened, and its header checked.  fieldnames is None for an empty file, and
\* `col in None` raises, which the except clause turns into a failure.
OpenCsv(f, required) ==
    IF ~f.exists THEN [started |-> FALSE, out |-> {"Error: CSV file not found"}]
    ELSE IF f.fieldnames = None
    THEN [started |-> FALSE, out |-> {"Error reading CSV file"}]
    ELSE IF ~(required \subseteq Range(f.fieldnames))
    THEN [started |-> FALSE, out |-> {"Error: CSV must contain columns"}]
    ELSE [started |-> TRUE, out |-> {}]

\* row.get(k, '').strip() raises AttributeError when the value is None.
StripRaises(d) == \E k \in RowFields : Get(d, k, << >>) = None

\* append_from_csv, the loop body on one line of the file.
AppendRow(self_, fieldnames, row, resp) ==
    LET d == DictRow(fieldnames, row)
        ip == Strip(Get(d, "ip", << >>))
        mac == Strip(Get(d, "mac", << >>))
        hostname0 == Or(Strip(Get(d, "hostname", << >>)), None)
        lease_name == Or(Strip(Get(d, "lease_name", << >>)), None)
        hostname == IF ~Truthy(hostname0) /\ Truthy(lease_name) THEN lease_name
                    ELSE hostname0
        r == AppendLease(self_, ip, mac, hostname, resp)
    IN  IF StripRaises(d)
        THEN [kind |-> "raised", sent |-> << >>, out |-> {"Error reading CSV file"}]
        ELSE IF ~Truthy(ip) \/ ~Truthy(mac)
        THEN [kind |-> "failed", sent |-> << >>, out |-> {"Skipping - missing ip or mac"}]
        ELSE [kind |-> IF r.ret THEN "succeeded" ELSE "failed",
              sent |-> r.sent, out |-> r.out]

\* update_from_csv, the loop body on one line of the file.
UpdateRow(self_, fieldnames, row, resp) ==
    LET d == DictRow(fieldnames, row)
        lease_name == Strip(Get(d, "lease_name", << >>))
        ip == Strip(Get(d, "ip", << >>))
        mac == Strip(Get(d, "mac", << >>))
        hostname0 == Strip(Get(d, "hostname", << >>))
        hostname == IF ~Truthy(hostname0) THEN lease_name ELSE hostname0
        r == UpdateLease(self_, lease_name, ip, mac, hostname, resp)
    IN  IF StripRaises(d)
        THEN [kind |-> "raised", sent |-> << >>, out |-> {"Error reading CSV file"}]
        ELSE IF ~Truthy(lease_name) \/ ~Truthy(ip) \/ ~Truthy(mac)
        THEN [kind |-> "failed", sent |-> << >>,
              out |-> {"Skipping - missing lease_name, ip, or mac"}]
        ELSE [kind |-> IF r.ret THEN "succeeded" ELSE "failed",
              sent |-> r.sent, out |-> r.out]

(* ------------------------- inputs and the remote ---------------------- *)

\* Values of --maas-url: not given, empty, a server, the same with a slash.
UrlFlags == {None, << >>, <<"http://other:5240">>, <<"http://other:5240", "/">>}

\* Values of --api-key: not given, three parts, two parts, four parts.
KeyFlags == {None,
             <<"ck", ":", "tok", ":", "sec">>,
             <<"ck", ":", "tok">>,
             <<"ck", ":", "tok", ":", "sec", ":", "x">>}

\* Credentials the process environment or a local config file may hold.
Unset == [url |-> None, key |-> None]

EnvSet == [url |-> <<"http://env:5240">>, key |-> <<"e", ":", "e", ":", "e">>]

FileSet == [url |-> <<"http://file:5240">>, key |-> <<"f", ":", "f", ":", "f">>]

IpA == <<"10.0.0.5">>

IpB == <<"10.0.0.6">>

IpC == <<"10.0.0.7">>

\* Records the remote collection may hold: two with the same ip, macs in
\* either case, ids 7, 8, 0 and none.
Items == {[id |-> 7, ip |-> IpA, mac |-> <<"aa:bb">>, hostname |-> <<"node1">>],
          [id |-> 8, ip |-> IpA, mac |-> <<"CC:DD">>],
          [id |-> 0, ip |-> IpB, mac |-> <<"AA:BB">>, lease_name |-> <<"zero">>],
          [ip |-> IpC, hostname |-> <<"node3">>]}

Collections == UNION {[1..n -> Items] : n \in 0..MaxItems}

\* Identifiers delete_lease is asked for.
Identifiers == {<<IpA, "ip">>, <<IpB, "ip">>, <<IpC, "ip">>, <<<<"10.0.0.9">>, "ip">>,
                <<<<"AA:BB">>, "mac">>, <<<<"cc:dd">>, "mac">>, <<<<"ee:ff">>, "mac">>}

Formats == {"table", "json", "raw"}

\* What the transport may answer to the listing GET.
GetResponses(coll) == {Exc, Http(500, TRUE, EmptyDict), Http(200, TRUE, coll)}

\* What the transport may answer to a POST, PUT or DELETE.
MutResponses == {Exc, Http(404, TRUE, EmptyDict), Http(204, FALSE, EmptyDict),
                 Http(200, TRUE, EmptyDict), Http(201, TRUE, [id |-> 9])}

\* Cells of a CSV line: an empty field, and a value with blanks around it.
Cells == {<< >>, <<" ", "v", " ">>}

\* Header lines: complete for append, for both, and lacking a column.
Headers == {<<"ip", "mac">>, <<"ip", "mac", "hostname">>, <<"lease_name", "ip", "mac">>,
            <<"ip">>, <<"lease_name", "ip">>}

\* Lines under a header: blank, shorter than the header, or full.
Lines(h) == UNION {[1..n -> Cells] : n \in 0..Len(h)}

\* The files a batch is given: none at the path, an empty file, or a header
\* line and up to MaxRows lines.
Files == {[exists |-> FALSE, fieldnames |-> None, rows |-> << >>],
          [exists |-> TRUE, fieldnames |-> None, rows |-> << >>]}
         \cup UNION {{[exists |-> TRUE, fieldnames |-> h, rows |-> rs] :
                        rs \in UNION {[1..n -> Lines(h)] : n \in 0..MaxRows}} :
                     h \in Headers}

(* ------------------------------- state -------------------------------- *)

VARIABLES
    pc,            \* "main": no manager yet; "ready": constructed; "rows": in a
                   \* batch loop; "done": the operation has returned
    environ,       \* credentials in the process environment
    config,        \* credentials in a local config file
    args,          \* the --maas-url and --api-key flags of the invocation
    self,          \* the manager: maas_url, api_key
    remote,        \* the remote collection
    op,            \* the last call: its name and arguments
    ret,           \* what the last call returned
    log,           \* the requests the last call issued, each with its response
    out,           \* the messages the last call printed
    repeated,      \* the last two calls were both list_leases
    file,          \* the CSV file of the running batch
    rows_read,     \* lines of it, after the header, that the reader has consumed
    success_count,
    fail_count

vars == <<pc, environ, config, args, self, remote, op, ret, log, out, repeated,
          file, rows_read, success_count, fail_count>>

batchVars == <<file, rows_read, success_count, fail_count>>

NoOp == [name |-> "none", args |-> << >>]

NoFile == [exists |-> FALSE, fieldnames |-> None, rows |-> << >>]

\* The requests of a call, each with the response it got.
Logged(sent, resps) == [i \in DOMAIN sent |-> [req |-> sent[i], resp |-> resps[i]]]

Init ==
    /\ pc = "main"
    /\ environ = Unset
    /\ config = Unset
    /\ args = [maas_url |-> None, api_key |-> None]
    /\ self = ManagerInit(None, None)
    /\ remote \in Collections
    /\ op = NoOp
    /\ ret = FALSE
    /\ log = << >>
    /\ out = {}
    /\ repeated = FALSE
    /\ file = NoFile
    /\ rows_read = 0
    /\ success_count = 0
    /\ fail_count = 0

\* main: the flags parsed and the manager constructed from them.
Main ==
    /\ pc = "main"
    /\ \E u \in UrlFlags, k \in KeyFlags :
          /\ args' = [maas_url |-> u, api_key |-> k]
          /\ self' = ManagerInit(u, k)
          /\ out' = IF ManagerInit(u, k).unconfigured
                    THEN {"ERROR: MAAS URL or API key not configured"} ELSE {}
    /\ pc' = "ready"
    /\ op' = NoOp
    /\ ret' = FALSE
    /\ log' = << >>
    /\ repeated' = FALSE
    /\ UNCHANGED <<environ, config, remote>>
    /\ UNCHANGED batchVars

\* A call of list_leases: the operation of the invocation, or the same
\* listing asked for once more.  The remote collection is the same for both:
\* a run ends with its first mutating operation.
CallListLeases ==
    /\ pc = "ready" \/ (pc = "done" /\ op.name = "list")
    /\ \E f \in Formats, resp \in GetResponses(remote) :
          LET r == ListLeases(self, f, resp)
          IN  /\ op' = [name |-> "list", args |-> <<f>>]
              /\ ret' = r.ret
              /\ log' = Logged(r.sent, <<resp>>)
              /\ out' = r.out
    /\ repeated' = (op.name = "list")
    /\ pc' = "done"
    /\ UNCHANGED <<environ, config, args, self, remote>>
    /\ UNCHANGED batchVars

\* A call of delete_lease.
CallDeleteLease ==
    /\ pc = "ready"
    /\ \E id \in Identifiers, resp1 \in GetResponses(remote), resp2 \in MutResponses :
          LET r == DeleteLease(self, id[1], id[2], resp1, resp2)
          IN  /\ op' = [name |-> "delete", args |-> id]
              /\ ret' = r.ret
              /\ log' = Logged(r.sent, <<resp1, resp2>>)
              /\ out' = r.out
    /\ repeated' = FALSE
    /\ pc' = "done"
    /\ UNCHANGED <<environ, config, args, self, remote>>
    /\ UNCHANGED batchVars

\* A call of append_lease, with any arguments; main calls it only with an ip
\* and a mac.
CallAppendLease ==
    /\ pc = "ready"
    /\ \E ip \in {None, << >>, IpA}, mac \in {None, << >>, <<"aa:bb">>},
          hostname \in {None, <<"node1">>}, resp \in MutResponses :
          LET r == AppendLease(self, ip, mac, hostname, resp)
          IN  /\ op' = [name |-> "append", args |-> <<ip, mac, hostname>>]
              /\ ret' = r.ret
              /\ log' = Logged(r.sent, <<resp>>)
              /\ out' = r.out
    /\ repeated' = FALSE
    /\ pc' = "done"
    /\ UNCHANGED <<environ, config, args, self, remote>>
    /\ UNCHANGED batchVars

\* A call of update_lease.
CallUpdateLease ==
    /\ pc = "ready"
    /\ \E name \in {<<"snip">>}, ip \in {IpA}, mac \in {<<"aa:bb">>},
          hostname \in {<<"node1">>}, resp \in MutResponses :
          LET r == UpdateLease(self, name, ip, mac, hostname, resp)
          IN  /\ op' = [name |-> "update", args |-> <<name, ip, mac, hostname>>]
              /\ ret' = r.ret
              /\ log' = Logged(r.sent, <<resp>>)
              /\ out' = r.out
    /\ repeated' = FALSE
    /\ pc' = "done"
    /\ UNCHANGED <<environ, config, args, self, remote>>
    /\ UNCHANGED batchVars

Next ==
    \/ Main
    \/ CallListLeases
    \/ CallDeleteLease
    \/ CallAppendLease
    \/ CallUpdateLease

Spec == Init /\ [][Next]_vars

(* ---------------------- credentials, every source --------------------- *)

\* As Init, with the environment and the config file set or unset, against
\* one remote collection.
InitCred ==
    /\ pc = "main"
    /\ environ \in {Unset, EnvSet}
    /\ config \in {Unset, FileSet}
    /\ args = [maas_url |-> None, api_key |-> None]
    /\ self = ManagerInit(None, None)
    /\ remote \in {<<[id |-> 7, ip |-> IpA, mac |-> <<"aa:bb">>, hostname |-> <<"node1">>]>>}
    /\ op = NoOp
    /\ ret = FALSE
    /\ log = << >>
    /\ out = {}
    /\ repeated = FALSE
    /\ file = NoFile
    /\ rows_read = 0
    /\ success_count = 0
    /\ fail_count = 0

SpecCred == InitCred /\ [][Next]_vars

(* ------------------------------ batches ------------------------------- *)

\* A manager as main constructs it from well-formed flags.
InitBatch ==
    /\ pc = "ready"
    /\ environ = Unset
    /\ config = Unset
    /\ args \in {[maas_url |-> <<"http://other:5240">>,
                  api_key |-> <<"ck", ":", "tok", ":", "sec">>],
                 [maas_url |-> <<"http://other:5240">>, api_key |-> None]}
    /\ self = ManagerInit(args.maas_url, args.api_key)
    /\ remote = << >>
    /\ op = NoOp
    /\ ret = FALSE
    /\ log = << >>
    /\ out = {}
    /\ repeated = FALSE
    /\ file = NoFile
    /\ rows_read = 0
    /\ success_count = 0
    /\ fail_count = 0

\* A batch is called: up to its loop, or to its early return.
StartBatch(name, required) ==
    \E f \in Files :
       LET o == OpenCsv(f, required)
       IN  /\ op' = [name |-> name, args |-> <<f>>]
           /\ file' = f
           /\ out' = o.out
           /\ pc' = IF o.started THEN "rows" ELSE "done"
           /\ ret' = FALSE
           /\ log' = << >>
           /\ rows_read' = 0
           /\ success_count' = 0
           /\ fail_count' = 0

\* A call of append_from_csv.
CallAppendFromCsv ==
    /\ pc = "ready"
    /\ StartBatch("append_from_csv", AppendRequired)
    /\ UNCHANGED <<environ, config, args, self, remote, repeated>>

\* A call of update_from_csv.
CallUpdateFromCsv ==
    /\ pc = "ready"
    /\ StartBatch("update_from_csv", UpdateRequired)
    /\ UNCHANGED <<environ, config, args, self, remote, repeated>>

\* What one pass of a batch's loop leaves: the counts, and the loop left by
\* an exception, through the except clause of the function.
RowDone(r, resp) ==
    /\ log' = log \o Logged(r.sent, <<resp>>)
    /\ out' = out \cup r.out
    /\ pc' = IF r.kind = "raised" THEN "done" ELSE "rows"
    /\ success_count' = success_count + (IF r.kind = "succeeded" THEN 1 ELSE 0)
    /\ fail_count' = fail_count + (IF r.kind = "failed" THEN 1 ELSE 0)
    /\ ret' = FALSE

\* One pass of the loop of append_from_csv: the next line is read and handled.
AppendFromCsvRow ==
    /\ pc = "rows"
    /\ op.name = "append_from_csv"
    /\ rows_read < Len(file.rows)
    /\ rows_read' = rows_read + 1
    /\ IF BlankLine(file.rows[rows_read + 1])
       THEN UNCHANGED <<pc, ret, log, out, success_count, fail_count>>
       ELSE \E resp \in MutResponses :
               RowDone(AppendRow(self, file.fieldnames, file.rows[rows_read + 1], resp), resp)
    /\ UNCHANGED <<environ, config, args, self, remote, op, repeated, file>>

\* One pass of the loop of update_from_csv.
UpdateFromCsvRow ==
    /\ pc = "rows"
    /\ op.name = "update_from_csv"
    /\ rows_read < Len(file.rows)
    /\ rows_read' = rows_read + 1
    /\ IF BlankLine(file.rows[rows_read + 1])
       THEN UNCHANGED <<pc, ret, log, out, success_count, fail_count>>
       ELSE \E resp \in MutResponses :
               RowDone(UpdateRow(self, file.fieldnames, file.rows[rows_read + 1], resp), resp)
    /\ UNCHANGED <<environ, config, args, self, remote, op, repeated, file>>

\* The loop of a batch ends: the counts are printed and decide the result.
BatchCompleted ==
    /\ pc = "rows"
    /\ rows_read = Len(file.rows)
    /\ out' = out \cup {"Completed"}
    /\ ret' = (success_count > 0)
    /\ pc' = "done"
    /\ UNCHANGED <<environ, config, args, self, remote, op, log, repeated>>
    /\ UNCHANGED batchVars

NextBatch ==
    \/ CallAppendFromCsv
    \/ CallUpdateFromCsv
    \/ AppendFromCsvRow
    \/ UpdateFromCsvRow
    \/ BatchCompleted

SpecBatch == InitBatch /\ [][NextBatch]_vars

(* ------------------- single operations and batches ------------------- *)

\* A constructed manager, as InitBatch, against a collection with records.
InitAll ==
    /\ pc = "ready"
    /\ environ = Unset
    /\ config = Unset
    /\ args \in {[maas_url |-> <<"http://other:5240">>,
                  api_key |-> <<"ck", ":", "tok", ":", "sec">>],
                 [maas_url |-> <<"http://other:5240">>, api_key |-> None]}
    /\ self = ManagerInit(args.maas_url, args.api_key)
    /\ remote = <<[id |-> 7, ip |-> IpA, mac |-> <<"aa:bb">>, hostname |-> <<"node1">>],
                  [id |-> 0, ip |-> IpB, mac |-> <<"AA:BB">>, lease_name |-> <<"zero">>]>>
    /\ op = NoOp
    /\ ret = FALSE
    /\ log = << >>
    /\ out = {}
    /\ repeated = FALSE
    /\ file = NoFile
    /\ rows_read = 0
    /\ success_count = 0
    /\ fail_count = 0

\* Every operation of the manager: the single calls and the batches.
NextAll ==
    \/ CallListLeases
    \/ CallDeleteLease
    \/ CallAppendLease
    \/ CallUpdateLease
    \/ CallAppendFromCsv
    \/ CallUpdateFromCsv
    \/ AppendFromCsvRow
    \/ UpdateFromCsvRow
    \/ BatchCompleted

SpecAll == InitAll /\ [][NextAll]_vars

(* ------------------------------- claims ------------------------------- *)

Batches == {"append_from_csv", "update_from_csv"}

Succeeded(resp) == ~resp.exc /\ resp.status_code \in SuccessCodes

MalformedKey(key) == Len(Split(key, ":")) # 3

Mutating(method) == method \in {"POST", "PUT", "DELETE"}

\* C1: with an API key that does not split into exactly three colon-separated
\* segments, an operation that has returned has issued no request.
C1_MalformedKeyIssuesNoRequest ==
    (pc = "done" /\ MalformedKey(self.api_key)) => log = << >>

IsListingGet(e) == e.req.method = "GET" /\ e.req.url.endpoint.target = NoTarget

\* C2 as stated: every POST, PUT or DELETE of an operation comes after a GET of
\* the full collection issued by the same operation.
C2_MutationPrecededByListing ==
    \A i \in DOMAIN log :
        Mutating(log[i].req.method) => \E j \in 1..(i - 1) : IsListingGet(log[j])

\* C2 as amended: every DELETE of delete_lease comes right after a successful
\* GET of the full collection issued by the same call; the POST of
\* append_lease and the PUT of update_lease are issued with no GET at all.
C2_DeletePrecededByListing ==
    /\ \A i \in DOMAIN log :
          log[i].req.method = "DELETE" =>
             /\ op.name = "delete"
             /\ i = 2
             /\ IsListingGet(log[1])
             /\ Succeeded(log[1].resp)
    /\ op.name \in {"append", "update"} =>
          \A i \in DOMAIN log : log[i].req.method \in {"POST", "PUT"}

C2_DeleteAfterListingReached ==
    /\ op.name = "delete"
    /\ Len(log) = 2
    /\ log[2].req.method = "DELETE"

\* The column `col` of line `row` is missing: the line does not reach it, or
\* the cell is empty once stripped.
FieldMissing(fieldnames, row, col) ==
    \A j \in DOMAIN fieldnames :
        fieldnames[j] = col => (j > Len(row) \/ Strip(row[j]) = << >>)

MissingIpOrMac(f, i) ==
    /\ ~BlankLine(f.rows[i])
    /\ FieldMissing(f.fieldnames, f.rows[i], "ip") \/ FieldMissing(f.fieldnames, f.rows[i], "mac")

RequiredOf(name) == IF name = "append_from_csv" THEN AppendRequired ELSE UpdateRequired

\* The batch has passed its header check.
InLoopOrAfter ==
    /\ op.name \in Batches
    /\ file.exists
    /\ file.fieldnames # None
    /\ RequiredOf(op.name) \subseteq Range(file.fieldnames)

\* C3: every line read so far whose ip or mac is missing has been counted as
\* failed, and a batch that has returned has read every line of its file
\* (stated for a well-formed API key).
C3_MissingRowCountedAndRestProcessed ==
    (InLoopOrAfter /\ ~MalformedKey(self.api_key)) =>
       /\ fail_count >= Cardinality({i \in 1..rows_read : MissingIpOrMac(file, i)})
       /\ pc = "done" => rows_read = Len(file.rows)

LacksRequired(f, required) ==
    /\ f.exists
    /\ f.fieldnames # None
    /\ ~(required \subseteq Range(f.fieldnames))

\* C4: a batch over a file whose header lacks a required column has returned
\* failure with no line read, nothing counted and no request issued.
C4_MissingColumnRejectsFile ==
    (op.name \in Batches /\ LacksRequired(file, RequiredOf(op.name))) =>
       /\ pc = "done"
       /\ ret = FALSE
       /\ "Error: CSV must contain columns" \in out
       /\ rows_read = 0
       /\ success_count = 0
       /\ fail_count = 0
       /\ log = << >>

C4_RejectedFileWithRows ==
    /\ op.name = "update_from_csv"
    /\ file.fieldnames = <<"ip", "mac">>
    /\ Len(file.rows) = 2
    /\ file.rows[1] = <<<<" ", "v", " ">>, <<" ", "v", " ">>>>
    /\ pc = "done"

\* The record matches the identifier: the same ip, or the same mac whatever
\* the case of its letters.
RecordMatches(item, identifier, kind) ==
    IF kind = "ip" THEN "ip" \in DOMAIN item /\ item.ip = identifier
    ELSE "mac" \in DOMAIN item /\ Lower(item.mac) = Lower(identifier)

\* delete_lease has returned and its listing was fetched.
DeleteFetched ==
    /\ op.name = "delete"
    /\ Len(log) >= 1
    /\ Succeeded(log[1].resp)

Fetched == log[1].resp.json

MatchingRecords == {i \in DOMAIN Fetched : RecordMatches(Fetched[i], op.args[1], op.args[2])}

\* C5: delete_lease on a fetched collection with no matching record reports
\* not found, returns failure and issues the listing GET and nothing else.
C5_NoMatchNoDelete ==
    (DeleteFetched /\ MatchingRecords = {}) =>
       /\ ret = FALSE
       /\ "Lease not found" \in out
       /\ Len(log) = 1
       /\ IsListingGet(log[1])

C5_NoMatchReached ==
    /\ DeleteFetched
    /\ MatchingRecords = {}
    /\ Fetched # << >>
    /\ op.args = <<<<"10.0.0.9">>, "ip">>

FirstMatch == Fetched[CHOOSE i \in MatchingRecords : \A j \in MatchingRecords : i <= j]

\* C6: when a record of the fetched collection matches and the first such
\* record has an id, delete_lease issues exactly one DELETE, addressed to that
\* id, and does not report not found (stated for a well-formed API key).
C6_FirstMatchDeleted ==
    (/\ DeleteFetched
     /\ ~MalformedKey(self.api_key)
     /\ MatchingRecords # {}
     /\ "id" \in DOMAIN FirstMatch) =>
       /\ Len(log) = 2
       /\ log[2].req.method = "DELETE"
       /\ log[2].req.url.endpoint.target = <<FirstMatch.id>>
       /\ "Lease not found" \notin out

\* C7: append_lease without ip or without mac returns failure and issues no
\* request; with both it issues one POST on the collection and nothing else.
C7_AppendNeedsIpAndMac ==
    op.name = "append" =>
       IF ~Truthy(op.args[1]) \/ ~Truthy(op.args[2])
       THEN ret = FALSE /\ log = << >>
       ELSE /\ Len(log) = 1
            /\ log[1].req.method = "POST"
            /\ log[1].req.url.endpoint.target = NoTarget

C7_AppendRejectedReached ==
    /\ op.name = "append"
    /\ op.args[1] = IpA
    /\ op.args[2] = << >>
    /\ ret = FALSE

\* The first of the sources, in order, that holds a value.
FirstSet(sources) ==
    LET set == {i \in DOMAIN sources : Truthy(sources[i])}
    IN  sources[CHOOSE i \in set : \A j \in set : i <= j]

\* C8 as stated: the manager's URL and key are those of the first source that
\* gives them, in the order flags, environment, config file, built-in default.
C8_HighestPrioritySource ==
    pc # "main" =>
       /\ self.maas_url = FirstSet(<<args.maas_url, environ.url, config.url, MAAS_URL>>)
       /\ self.api_key = FirstSet(<<args.api_key, environ.key, config.key, MAAS_API_KEY>>)

\* C8 as amended: the URL and key are the flag when it is given and not empty,
\* and the built-in constant otherwise, whatever the environment and the
\* config file hold; every request goes to that URL.
C8_FlagThenConstant ==
    pc # "main" =>
       /\ self.maas_url = FirstSet(<<args.maas_url, MAAS_URL>>)
       /\ self.api_key = FirstSet(<<args.api_key, MAAS_API_KEY>>)
       /\ \A i \in DOMAIN log :
             log[i].req.url.base = RStrip(FirstSet(<<args.maas_url, MAAS_URL>>), "/")

C8_EnvironmentIgnoredReached ==
    /\ environ = EnvSet
    /\ config = FileSet
    /\ pc = "done"
    /\ args = [maas_url |-> None, api_key |-> <<"ck", ":", "tok", ":", "sec">>]
    /\ Len(log) = 1
    /\ log[1].req.url.base = MAAS_URL

OneListingGet(l) == Len(l) = 1 /\ IsListingGet(l[1])

\* C9 as stated: list_leases issues one GET and nothing else, and returns what
\* the call of list_leases before it returned.
C9_ListIdempotent ==
    [][op'.name = "list" =>
          /\ OneListingGet(log')
          /\ remote' = remote
          /\ op.name = "list" => ret' = ret]_vars

\* C9 as amended: list_leases issues one GET and nothing else, and when its GET
\* and that of the call of list_leases before it both succeeded, it returns
\* what that call returned, whatever the two output formats.
C9_ListIdempotentWhenFetched ==
    [][op'.name = "list" =>
          /\ OneListingGet(log')
          /\ remote' = remote
          /\ (op.name = "list" /\ Succeeded(log[1].resp) /\ Succeeded(log'[1].resp))
                => ret' = ret]_vars

C9_ListedTwiceReached ==
    /\ op.name = "list"
    /\ repeated
    /\ op.args = <<"raw">>
    /\ Succeeded(log[1].resp)
    /\ Len(ret) = 2

DataRows(f) == {i \in DOMAIN f.rows : ~BlankLine(f.rows[i])}

\* C10: when a batch has printed its counts, they add up to the number of
\* lines of the file that are not blank, success_count is the number of
\* requests answered with a success status, and the batch returns success
\* exactly when success_count is positive (stated for a well-formed API key).
C10_CountsMatchRowsAndStatuses ==
    (/\ op.name \in Batches
     /\ pc = "done"
     /\ "Completed" \in out
     /\ ~MalformedKey(self.api_key)) =>
       /\ success_count + fail_count = Cardinality(DataRows(file))
       /\ success_count = Cardinality({i \in DOMAIN log : Succeeded(log[i].resp)})
       /\ ret = (success_count > 0)

\* The requests a single operation may have issued, in order.
SingleShape(name, l) ==
    CASE name = "list"   -> Len(l) <= 1 /\ \A i \in DOMAIN l : IsListingGet(l[i])
      [] name = "delete" -> /\ Len(l) <= 2
                            /\ Len(l) >= 1 => IsListingGet(l[1])
                            /\ Len(l) = 2 => /\ l[2].req.method = "DELETE"
                                              /\ Succeeded(l[1].resp)
      [] name = "append" -> Len(l) <= 1 /\ \A i \in DOMAIN l : l[i].req.method = "POST"
      [] name = "update" -> Len(l) <= 1 /\ \A i \in DOMAIN l : l[i].req.method = "PUT"
      [] OTHER -> TRUE

\* The cell of column `col` in a line, stripped.
CellOf(f, i, col) ==
    Strip(f.rows[i][CHOOSE j \in DOMAIN f.fieldnames : f.fieldnames[j] = col])

\* The request is the one the batch makes for line i of its file.
RequestOfRow(name, e, f, i) ==
    IF name = "append_from_csv"
    THEN /\ e.req.method = "POST"
         /\ e.req.data.ip = CellOf(f, i, "ip")
         /\ e.req.data.mac = CellOf(f, i, "mac")
    ELSE /\ e.req.method = "PUT"
         /\ e.req.data.name = CellOf(f, i, "lease_name")
         /\ e.req.url.endpoint.target = CellOf(f, i, "lease_name")

\* C11: no request is retried.  A single operation has issued at most its
\* requests, once each and in order (delete: the GET, then a DELETE only after
\* the GET succeeded; list, append, update: at most one request); a batch has
\* issued at most one request for each line read that is not blank, and every
\* pass of its loop reads the next line and adds at most one request, that of
\* the line just read, to the end of those issued before, whether they failed
\* or not.
C11_NoRequestRetried ==
    [][/\ SingleShape(op'.name, log')
       /\ op'.name \in Batches =>
             /\ Len(log') <= Cardinality({i \in 1..rows_read' : ~BlankLine(file'.rows[i])})
             /\ pc = "rows" =>
                   /\ file' = file
                   /\ rows_read' \in {rows_read, rows_read + 1}
                   /\ Len(log') \in {Len(log), Len(log) + 1}
                   /\ SubSeq(log', 1, Len(log)) = log
                   /\ Len(log') = Len(log) + 1 =>
                         /\ rows_read' = rows_read + 1
                         /\ RequestOfRow(op.name, log'[Len(log')], file, rows_read')]_vars

C11_FailedRowNotRetriedReached ==
    /\ op.name = "append_from_csv"
    /\ pc = "done"
    /\ "Completed" \in out
    /\ Len(file.rows) = 2
    /\ Len(log) = 2
    /\ log[1].resp = Exc
    /\ Succeeded(log[2].resp)

\* The operation has returned after issuing its mutating request.
MutationIssued ==
    /\ pc = "done"
    /\ op.name \in {"delete", "append", "update"}
    /\ log # << >>
    /\ Mutating(log[Len(log)].req.method)

\* C12: a mutating operation that has issued its request returns success
\* exactly when the request was answered with a success status, whatever the
\* body of the response (stated for a well-formed API key).
C12_SuccessIffSuccessStatus ==
    (MutationIssued /\ ~MalformedKey(self.api_key)) =>
       ret = Succeeded(log[Len(log)].resp)


=============================================================================
